---------------------------- MODULE Spec2Model ----------------------------
(***************************************************************************)
(* A model of the point-cloud to image conversion of                       *)
(* app/scripts/las_to_images.py: the tile-grid planner and dispatcher of   *)
(* create_multiview_images and the perspective-view sampler and dispatcher *)
(* of create_perspective_views.                                            *)
(*                                                                         *)
(* Numbers.  The program computes in binary floating point.  The model     *)
(* computes in fixed point:                                                *)
(*   - the bounds PDAL reports are whole metres;                           *)
(*   - lengths and coordinates are integers in units of 1/Fine metre;      *)
(*   - overlap is a number of tenths (3 is 0.3);                           *)
(*   - math.sqrt is the floor square root to the centimetre;               *)
(*   - angles are integers in thousandths of a degree.                     *)
(* Every product and quotient other than the square root and the angle     *)
(* quotients is exact in these units.                                      *)
(***************************************************************************)
EXTENDS Integers, Sequences, FiniteSets, TLC

(***************************************************************************)
(* Bounds of the model.                                                    *)
(***************************************************************************)
\* Extents have sides of 0, 1, 2, 4 or 6 times DimUnit metres.
DimUnit == 5
\* View counts: -1, 0, 1..MaxViewCount, and the jittered 11 and 30.
MaxViewCount == 9
\* Seeds of the random module.
MaxSeed == 5
\* Target image counts of a tile job: None (0) and 1..MaxCount.
MaxCount == 3
\* External calls that may go wrong in one job.
MaxFaults == 2

\* Units per metre.
Fine == 10 * 100
\* Overlap is given in tenths.
OvDen == 2 * 5

None == 0
\* The count convert_las_to_images passes when its caller gives none.
DefaultCount == 30

Max2(a, b) == IF a >= b THEN a ELSE b
Min2(a, b) == IF a <= b THEN a ELSE b
Abs(a) == IF a >= 0 THEN a ELSE 0 - a

\* math.ceil(a / b) for b > 0
CeilDiv(a, b) == (a + b - 1) \div b

RECURSIVE SqrtIter(_, _)
SqrtIter(n, x) ==
    LET y == (x + n \div x) \div 2
    IN  IF y >= x THEN x ELSE SqrtIter(n, y)

\* math.sqrt, rounded down to a whole number of units
ISqrt(n) == IF n <= 0 THEN 0 ELSE SqrtIter(n, n)

(***************************************************************************)
(* Formatting of non-negative integers: {n:02d}, {n:03d}.                  *)
(***************************************************************************)
RECURSIVE Digits(_)
Digits(n) == IF n < 10 THEN <<n>> ELSE Append(Digits(n \div 10), n % 10)

RECURSIVE ZeroPad(_, _)
ZeroPad(ds, w) == IF Len(ds) >= w THEN ds ELSE ZeroPad(<<0>> \o ds, w)

Fmt02d(n) == ZeroPad(Digits(n), 2)

VARIABLES
    job,            \* "tiles": create_multiview_images; "views": create_perspective_views
    ext,            \* the bounds PDAL reports: [minx, miny, maxx, maxy], metres
    mode,           \* "intensity", "rgb", "elevation", "count"
    resolution,     \* the caller's resolution, thousandths of a metre
    tile_size0,     \* the caller's tile_size, metres
    overlap,        \* the caller's overlap, tenths
    count,          \* the count the function is called with (None = 0)
    via,            \* "function": the function is called itself; "convert":
                    \* through convert_las_to_images, with no count given
    gdal,           \* whether gdalbuildvrt and gdal_translate are installed
    faults,         \* external calls that may still go wrong in this job
    pc,             \* position in the function; at the end "done" (the loop
                    \* ended), "returned" (an early return) or "crashed" (an
                    \* exception left the function)
    plan,           \* what the planning pass computed
    row, col,       \* loop variables of the tile loop
    cur,            \* the tile being dispatched: [row, col, win, name]
    band,           \* 1..3: the RGB band being rasterized
    fallback,       \* whether pipeline_json was replaced by the intensity fallback
    calls,          \* the external calls issued for the current tile, in order
    exits,          \* how each of them ended, an element of Outcomes
    dispatched,     \* the tiles handed to the engine so far, in order
    files,          \* the files in the output directory
    created_count,
    result,         \* the function's return value
    run, firstRun,  \* the same job run a second time
    vmode,          \* create_perspective_views' local "mode", which the RGB
                    \* probe may change to "intensity"
    cloud_rgb,      \* whether the point cloud has Red, Green and Blue
    rasterio,       \* whether the rasterio package is installed
    seed, draws,    \* the state of the random module: its seed and the number
                    \* of values drawn
    i,              \* loop variable of the view loop
    view,           \* the view being dispatched
    info_calls,     \* the "pdal info" calls issued so far
    convert_to_jpg, \* the request's convert_to_jpg
    api,            \* position in the API request: "script" (the conversion
                    \* function runs), "collected", "responded" or "failed"
    tif_files,      \* the files convert_las_to_images of the API returns
    reported,       \* the files the response names
    filename,       \* the file name of the download request, NoFile before it
    served          \* the file the download request was answered with

vars == <<job, ext, mode, resolution, tile_size0, overlap, count, via, gdal, faults, pc, plan,
          row, col, cur, band, fallback, calls, exits, dispatched, files,
          created_count, result, run, firstRun, vmode, cloud_rgb, rasterio,
          seed, draws, i, view, info_calls, convert_to_jpg, api, tif_files,
          reported, filename, served>>

inputs == <<job, ext, mode, resolution, tile_size0, overlap, count, via, gdal,
            cloud_rgb, rasterio, seed, convert_to_jpg>>
apivars == <<api, tif_files, reported, filename, served>>
viewvars == <<vmode, draws, i, view>>
tilevars == <<plan, row, col, cur, run, firstRun>>

(***************************************************************************)
(* create_multiview_images: the planning pass.                             *)
(***************************************************************************)
WidthM(e) == e.maxx - e.minx
HeightM(e) == e.maxy - e.miny
Width(e) == WidthM(e) * Fine
Height(e) == HeightM(e) * Fine

\* lines 339-344: a tile larger than the cloud becomes 40% of its largest side
AutoShrink(ts, e) ==
    IF ts > Max2(Width(e), Height(e))
    THEN (Max2(Width(e), Height(e)) * 4) \div 10
    ELSE ts

\* line 347: "if count and count > 0", line 355: "if area > 0"
UsesCount(e, n) == n # None /\ n > 0 /\ WidthM(e) * HeightM(e) > 0

\* line 356-357: count * (1 - overlap) ** 2, in hundredths
CountFactor(ov, n) == n * (OvDen - ov) * (OvDen - ov)

\* A slip: the area multiplied by the count instead of divided by it.
RawTileSizeTimesCount(e, ov, n) ==
    Fine * ISqrt((WidthM(e) * HeightM(e) * n * OvDen * OvDen)
                     \div ((OvDen - ov) * (OvDen - ov)))

\* lines 354-358: sqrt(area / (count * (1 - overlap) ** 2)); the area in
\* square centimetres, the root in centimetres, the result in units
RawTileSize(e, ov, n) ==
    (Fine \div 100) *
        ISqrt((WidthM(e) * HeightM(e) * 100 * 100 * OvDen * OvDen)
                  \div CountFactor(ov, n))

\* A slip: the upper clamp left out.
ClampLowerOnly(c, e) == Max2(10 * Fine, c)

\* line 361: max(10, min(calculated_tile_size, max(width, height) * 0.9))
ClampTileSize(c, e) ==
    Max2(10 * Fine, Min2(c, (Max2(Width(e), Height(e)) * 9) \div 10))

CalculatedTileSize(e, ov, n) == ClampTileSize(RawTileSize(e, ov, n), e)

\* line 363: only adjust if significantly different
Adjusts(calc, ts) == Abs(calc - ts) > 1 * Fine

\* lines 339-366: the tile size the grid is built with
FinalTileSize(ts0, e, ov, n) ==
    LET ts == AutoShrink(ts0 * Fine, e)
    IN  IF UsesCount(e, n) /\ Adjusts(CalculatedTileSize(e, ov, n), ts)
        THEN CalculatedTileSize(e, ov, n)
        ELSE ts

\* A slip: the overlap added to the step instead of taken off it.
StepPlusOverlap(ts, ov) == (ts * (OvDen + ov)) \div OvDen

\* line 372: step = tile_size * (1 - overlap)
Step(ts, ov) == (ts * (OvDen - ov)) \div OvDen

\* A slip: the quotient rounded down.
GridDimFloor(len, step) == IF step > 0 THEN len \div step ELSE 1

\* lines 375-376: math.ceil(width / step) if step > 0 else 1
GridDim(len, step) == IF step > 0 THEN CeilDiv(len, step) ELSE 1

\* A slip: the clamp to the overall bounds left out.
TileWindowUnclamped(e, ts, step, r, c) ==
    [min_x |-> e.minx * Fine + c * step,
     min_y |-> e.miny * Fine + r * step,
     max_x |-> e.minx * Fine + c * step + ts,
     max_y |-> e.miny * Fine + r * step + ts]

\* lines 389-399: the bounds of tile (r, c), clamped to the extent
TileWindow(e, ts, step, r, c) ==
    LET tile_minx == e.minx * Fine + c * step
        tile_miny == e.miny * Fine + r * step
        tile_maxx == tile_minx + ts
        tile_maxy == tile_miny + ts
    IN  [min_x |-> Max2(e.minx * Fine, tile_minx),
         min_y |-> Max2(e.miny * Fine, tile_miny),
         max_x |-> Min2(e.maxx * Fine, tile_maxx),
         max_y |-> Min2(e.maxy * Fine, tile_maxy)]

\* line 401: "if tile_maxx <= tile_minx or tile_maxy <= tile_miny: continue"
Degenerate(w) == w.max_x <= w.min_x \/ w.max_y <= w.min_y

\* A slip: the column alone in the name.
TileNameNoRow(m, r, c) ==
    [kind |-> "tile", mode |-> m, r |-> Fmt02d(0), c |-> Fmt02d(c),
     suffix |-> "", type |-> "tif"]

\* line 406: {base}_{mode}_tile_r{row:02d}_c{col:02d}.tif
TileName(m, r, c) ==
    [kind |-> "tile", mode |-> m, r |-> Fmt02d(r), c |-> Fmt02d(c),
     suffix |-> "", type |-> "tif"]

(***************************************************************************)
(* The output directory and the external tools.                            *)
(***************************************************************************)
\* A file is a pair <<name, content>>; the content says what was written and
\* whether the file has any bytes.
Exists(fs, name) == \E f \in fs : f[1] = name
RemoveFile(fs, name) == {f \in fs : f[1] # name}
WriteFile(fs, name, content) == RemoveFile(fs, name) \cup {<<name, content>>}
ContentOf(fs, name) == (CHOOSE f \in fs : f[1] = name)[2]
NonEmpty(fs, name) == Exists(fs, name) /\ ContentOf(fs, name).bytes > 0

\* What an external process can do: write its output and exit 0 ("ok"), exit 0
\* having written a zero-byte file ("empty") or no file ("missing"), or exit
\* with an error, which subprocess.run(check=True) raises ("error").
Outcomes == {"ok", "empty", "missing", "error"}

\* The output directory after a tool that writes `name` ended with outcome o.
AfterTool(fs, name, holds, o) ==
    CASE o = "ok" -> WriteFile(fs, name, [holds |-> holds, bytes |-> 1])
      [] o = "empty" -> WriteFile(fs, name, [holds |-> holds, bytes |-> 0])
      [] OTHER -> fs

\* str(output_file).replace('.tif', '_red.tif'), ... '.vrt'
BandName(name, dim) ==
    [name EXCEPT !.suffix = CASE dim = "Red" -> "_red"
                               [] dim = "Green" -> "_green"
                               [] OTHER -> "_blue"]
VrtName(name) == [name EXCEPT !.type = "vrt"]

BandDims == <<"Red", "Green", "Blue">>

\* lines 412-436: the writers.gdal stage of a tile in mode m
TilePipeline(m) ==
    [dimension |-> IF m = "elevation" THEN "Z" ELSE "Intensity",
     output_type |-> IF m # "count" THEN "mean" ELSE "count",
     data_type |-> IF m = "elevation" THEN "float32"
                   ELSE IF m # "count" THEN "uint16_t" ELSE "uint32_t",
     predictor |-> m # "elevation"]

\* lines 445-467: the writers.gdal stage of one RGB band
BandPipeline(dim) ==
    [dimension |-> dim, output_type |-> "mean", data_type |-> "uint16_t",
     predictor |-> TRUE]

\* lines 518-538: the intensity fallback, which sets no data_type
FallbackPipeline ==
    [dimension |-> "Intensity", output_type |-> "mean", data_type |-> "default",
     predictor |-> TRUE]

NoCrop == [min_x |-> 0, min_y |-> 0, max_x |-> -1, max_y |-> -1]

\* Names outside the conversion's naming: no file, the NotFound answer, the
\* archive of the job, the uploaded point cloud, a name no file of the job has.
OtherName(k, t) == [kind |-> k, mode |-> "", suffix |-> "", type |-> t]
NoFile == OtherName("none", "")
NotFound == OtherName("NotFound", "")
ZipName == OtherName("converted_images", "zip")
UploadName == OtherName("upload", "las")
MissingName == OtherName("missing", "tif")

\* One "pdal pipeline" run: what it was asked for.
PdalCall(writer, crop, res, out) ==
    [tool |-> "pdal", writer |-> writer, crop |-> crop, resolution |-> res,
     out |-> out]

(***************************************************************************)
(* create_perspective_views: the sampler.                                  *)
(***************************************************************************)
\* Angles are in thousandths of a degree, resolutions in thousandths of a metre.
Milli == Fine

\* A slip: the square root rounded down.
GridSizeFloor(n) == ISqrt(n)

\* math.ceil(math.sqrt(n)), line 676
GridSize(n) == IF ISqrt(n) * ISqrt(n) = n THEN ISqrt(n) ELSE ISqrt(n) + 1

\* line 683: (i * 360.0 / count) % 360
BaseAzimuth(k, n) == ((k * 360 * Milli) \div n) % (360 * Milli)

\* line 685: 10 + (i % 8) * (75.0 / 7)
BaseElevation(k) == 10 * Milli + ((k % 8) * 75 * Milli) \div 7

\* line 688: "if count > 10"
Jittered(n) == n > 10

\* The random module is a deterministic generator: the d-th value drawn is a
\* function of the seed.  Of random.uniform(lo, hi) the model draws the lowest,
\* the middle and the highest value (levels -1, 0, 1): seeds 1..3 draw one
\* level throughout, the seeds above rotate through the levels.
Level(sd, d) == IF sd <= 3 THEN sd - 2 ELSE ((d * (sd - 3) + sd) % 3) - 1
Uniform(lo, hi, lvl) == (lo + hi) \div 2 + lvl * ((hi - lo) \div 2)

\* line 691: max(10, min(85, elevation))
ClampElevation(el) == Max2(10 * Milli, Min2(85 * Milli, el))

\* A slip: the clamp of the jittered elevation left out.
ViewElevationUnclamped(k, n, sd, d) ==
    IF Jittered(n)
    THEN BaseElevation(k) + Uniform(0 - 3 * Milli, 3 * Milli, Level(sd, d + 1))
    ELSE BaseElevation(k)

\* lines 683-689: the azimuth of view k, the generator having drawn d values
ViewAzimuth(k, n, sd, d) ==
    IF Jittered(n)
    THEN BaseAzimuth(k, n) + Uniform(0 - 5 * Milli, 5 * Milli, Level(sd, d))
    ELSE BaseAzimuth(k, n)

\* lines 685-691: its elevation
ViewElevation(k, n, sd, d) ==
    IF Jittered(n)
    THEN ClampElevation(BaseElevation(k)
                          + Uniform(0 - 3 * Milli, 3 * Milli, Level(sd, d + 1)))
    ELSE BaseElevation(k)

\* line 709: resolution * random.uniform(0.9, 1.1)
ViewResolution(res, n, sd, d) ==
    (res * Uniform(900, 1100, Level(sd, IF Jittered(n) THEN d + 2 ELSE d)))
        \div Milli

DrawsPerView(n) == IF Jittered(n) THEN 3 ELSE 1

\* A slip: crop_fraction used where 1 - crop_fraction is meant.
ViewWindowWrongFraction(e, n, k) ==
    LET g == GridSize(n)
        view_min_x == e.minx * Fine + ((k % g) * Width(e) * 6) \div (g * 10)
        view_min_y == e.miny * Fine + ((k \div g) * Height(e) * 6) \div (g * 10)
    IN  [min_x |-> view_min_x,
         min_y |-> view_min_y,
         max_x |-> view_min_x + (Width(e) * 6) \div 10,
         max_y |-> view_min_y + (Height(e) * 6) \div 10]

\* lines 693-706: the crop bounds of view k: 60% of each axis, offset by the
\* grid cell's share of the other 40%
ViewWindow(e, n, k) ==
    LET g == GridSize(n)
        grid_row == k \div g
        grid_col == k % g
        crop_offset_x == (grid_col * Width(e) * 4) \div (g * 10)
        crop_offset_y == (grid_row * Height(e) * 4) \div (g * 10)
        view_min_x == e.minx * Fine + crop_offset_x
        view_min_y == e.miny * Fine + crop_offset_y
    IN  [min_x |-> view_min_x,
         min_y |-> view_min_y,
         max_x |-> view_min_x + (Width(e) * 6) \div 10,
         max_y |-> view_min_y + (Height(e) * 6) \div 10]

\* lines 742, 792, 986: the crop filter is added only
\* "if view_min_x < view_max_x and view_min_y < view_max_y"
CropOf(w) == IF w.min_x < w.max_x /\ w.min_y < w.max_y THEN w ELSE NoCrop

\* int(x) of Python: towards zero
IntTrunc(a) == IF a >= 0 THEN a \div Milli ELSE 0 - ((0 - a) \div Milli)

Fmt03d(n) == ZeroPad(Digits(n), 3)

\* A slip: the loop index itself in the name.
ViewNameZeroBased(k, az, el) ==
    [kind |-> "view", index |-> Fmt03d(k), az |-> IntTrunc(az),
     el |-> IntTrunc(el), suffix |-> "", type |-> "tif"]

\* line 712: {base}_view_{i+1:03d}_az{int(azimuth)}_el{int(elevation)}.tif
ViewName(k, az, el) ==
    [kind |-> "view", index |-> Fmt03d(k + 1), az |-> IntTrunc(az),
     el |-> IntTrunc(el), suffix |-> "", type |-> "tif"]

NoView ==
    [index |-> -1, azimuth |-> 0, elevation |-> 0, win |-> NoCrop,
     resolution |-> 0, name |-> ViewName(0, 0, 0)]

\* lines 957-1001: the writers.gdal stage of a view in mode m (not rgb)
ViewPipelineWriter(m) ==
    [dimension |-> IF m = "elevation" THEN "Z" ELSE "Intensity",
     output_type |-> IF m # "count" THEN "mean" ELSE "count",
     data_type |-> CASE m = "elevation" -> "float32"
                     [] m = "intensity" -> "uint16_t"
                     [] m = "count" -> "uint32_t"
                     [] OTHER -> "uint16_t",
     predictor |-> m # "elevation"]

(***************************************************************************)
(* Inputs.                                                                 *)
(***************************************************************************)
Modes == {"intensity", "rgb", "elevation", "count"}
Dims == {0, DimUnit, 4 * DimUnit, 6 * DimUnit}
Origin == <<0 - 7, 3>>
Extent(o, w, h) ==
    [minx |-> o[1], miny |-> o[2], maxx |-> o[1] + w, maxy |-> o[2] + h]
Extents == {Extent(Origin, w, h) : w \in Dims, h \in Dims}
TileSizes == {10, 100}
\* 0.0, 0.3, 0.5, and the invalid 1.0 and 1.5
Overlaps == {0, 3, 5, OvDen, OvDen + 5}
\* None, 1..MaxCount, and the 30 convert_las_to_images passes by default
Counts == (0 .. MaxCount) \cup {DefaultCount}

\* A slip: the count left as None when the caller gives none.
PassedCountNone(c) == c

\* las_to_images.py line 1060 and lasconversion.py lines 54, 656: the count
\* create_multiview_images gets when the caller of convert_las_to_images gives
\* none
PassedCount(c) == IF c = None THEN DefaultCount ELSE c

\* section 8 of the specification: extent {0,0,1000,1000}, tile_size 100,
\* overlap 0.3, no count
ScenarioExtent == Extent(<<0, 0>>, 1000, 1000)
IsScenario ==
    /\ job = "tiles" /\ ext = ScenarioExtent /\ tile_size0 = 100
    /\ overlap = 3 /\ count = None

InitRest ==
    /\ pc = "start"
    /\ plan = [tile_size |-> 0, calc |-> -1, step |-> 0, rows |-> 0, cols |-> 0]
    /\ row = 0 /\ col = 0
    /\ cur = [row |-> 0, col |-> 0, win |-> NoCrop, name |-> TileName("", 0, 0)]
    /\ band = 1
    /\ fallback = FALSE
    /\ calls = <<>>
    /\ exits = <<>>
    /\ dispatched = <<>>
    /\ files = {}
    /\ created_count = 0
    /\ result = "none"
    /\ run = 1
    /\ firstRun = <<>>
    /\ vmode = mode
    /\ draws = 0
    /\ i = 0
    /\ view = NoView
    /\ info_calls = 0
    /\ api = "script"
    /\ tif_files = {}
    /\ reported = {}
    /\ filename = NoFile
    /\ served = NoFile

\* Planning inputs in all combinations, dispatched in intensity mode.
InitPlanner ==
    /\ ext \in Extents
    /\ tile_size0 \in TileSizes
    /\ overlap \in Overlaps
    /\ via \in {"function", "convert"}
    /\ count \in IF via = "convert" THEN {PassedCount(None)}
                 ELSE Counts \ {DefaultCount}
    /\ mode = "intensity" /\ gdal = TRUE /\ faults = 0
    /\ convert_to_jpg = TRUE

\* A few small grids, dispatched in every mode with tools that may fail; the
\* request for the strip of three tiles comes with either convert_to_jpg.
InitDispatch ==
    /\ \E t \in {<<Extent(<<0, 0>>, 2 * DimUnit, 2 * DimUnit), 10, 3, None>>,
                  <<Extent(<<0, 0>>, DimUnit, 4 * DimUnit), 10, 3, None>>,
                  <<Extent(<<0, 0>>, DimUnit, DimUnit), 100, 3, 1>>} :
          ext = t[1] /\ tile_size0 = t[2] /\ overlap = t[3] /\ count = t[4]
    /\ via = "function"
    /\ mode \in Modes
    /\ gdal \in BOOLEAN
    /\ faults \in 0 .. MaxFaults
    /\ convert_to_jpg \in IF WidthM(ext) < HeightM(ext) THEN BOOLEAN ELSE {TRUE}

InitScenario ==
    /\ ext = ScenarioExtent /\ tile_size0 = 100 /\ overlap = 3 /\ count = None
    /\ via = "function"
    /\ mode = "intensity" /\ gdal = TRUE /\ faults = 0
    /\ convert_to_jpg = TRUE

InitTiles ==
    /\ job = "tiles"
    /\ resolution = 100
    /\ cloud_rgb = TRUE /\ rasterio = FALSE /\ seed = 1
    /\ InitPlanner \/ InitDispatch \/ InitScenario
    /\ InitRest

(***************************************************************************)
(* create_multiview_images.                                                *)
(***************************************************************************)
Spend(o) == IF o = "ok" THEN faults ELSE faults - 1
CanBe(o) == o = "ok" \/ faults > 0

\* lines 326-330: get_las_info; on failure the function returns False
GetLasInfoTiles ==
    /\ job = "tiles" /\ pc = "start"
    /\ \E ok \in BOOLEAN :
          /\ ok \/ faults > 0
          /\ faults' = IF ok THEN faults ELSE faults - 1
          /\ pc' = IF ok THEN "plan" ELSE "returned"
          /\ result' = IF ok THEN result ELSE "False"
    /\ info_calls' = info_calls + 1
    /\ UNCHANGED <<viewvars, inputs, apivars, plan, row, col, cur, band, fallback, calls, exits,
                   dispatched, files, created_count, run, firstRun>>

\* lines 356-357: area / (count * (1 - overlap) ** 2) divides by zero
DividesByZero == UsesCount(ext, count) /\ CountFactor(overlap, count) = 0

\* lines 332-378: the planning pass
PlanTiles ==
    /\ job = "tiles" /\ pc = "plan"
    /\ IF DividesByZero
       THEN /\ pc' = "crashed"
            /\ result' = "ZeroDivisionError"
            /\ UNCHANGED plan
       ELSE LET ts == FinalTileSize(tile_size0, ext, overlap, count)
                step == Step(ts, overlap)
            IN  /\ plan' = [tile_size |-> ts,
                            calc |-> IF UsesCount(ext, count)
                                     THEN CalculatedTileSize(ext, overlap, count)
                                     ELSE -1,
                            step |-> step,
                            cols |-> GridDim(Width(ext), step),
                            rows |-> GridDim(Height(ext), step)]
                /\ pc' = "tile"
                /\ UNCHANGED result
    /\ row' = 0 /\ col' = 0
    /\ UNCHANGED <<viewvars, inputs, apivars, info_calls, faults, cur, band, fallback, calls, exits, dispatched,
                   files, created_count, run, firstRun>>

\* lines 387-388: "for row in range(rows): for col in range(cols)"
LoopDone == row >= plan.rows \/ plan.cols <= 0
\* A slip: the loops nested the other way round (column by column).
NextCellColumnMajor ==
    IF row + 1 < plan.rows THEN <<row + 1, col>>
    ELSE IF col + 1 < plan.cols THEN <<0, col + 1>>
    ELSE <<plan.rows, 0>>

NextCell == IF col + 1 < plan.cols THEN <<row, col + 1>> ELSE <<row + 1, 0>>
NextRow == NextCell[1]
NextCol == NextCell[2]

\* lines 389-443: the head of one iteration, up to the first external call
TileLoop ==
    /\ job = "tiles" /\ pc = "tile" /\ ~LoopDone
    /\ LET w == TileWindow(ext, plan.tile_size, plan.step, row, col)
       IN  IF Degenerate(w)
           THEN /\ row' = NextRow /\ col' = NextCol
                /\ UNCHANGED <<pc, cur, band, fallback, calls, exits, dispatched>>
           ELSE /\ cur' = [row |-> row, col |-> col, win |-> w,
                           name |-> TileName(mode, row, col)]
                /\ dispatched' = Append(dispatched, cur')
                /\ calls' = <<>>
                /\ exits' = <<>>
                /\ band' = 1
                /\ fallback' = FALSE
                /\ pc' = IF mode = "rgb" THEN "band" ELSE "pipeline"
                /\ UNCHANGED <<row, col>>
    /\ UNCHANGED <<viewvars, inputs, apivars, info_calls, faults, plan, files, created_count, result, run,
                   firstRun>>

\* lines 478-481: create_rgb_band(red_tif, "Red"), green, blue; an error exit
\* raises into "except Exception" (line 515), which swaps in the fallback
CreateRgbBand ==
    /\ job = "tiles" /\ pc = "band"
    /\ \E o \in Outcomes :
          /\ CanBe(o)
          /\ faults' = Spend(o)
          /\ exits' = Append(exits, o)
          /\ calls' = Append(calls, PdalCall(BandPipeline(BandDims[band]),
                                             cur.win, resolution,
                                             BandName(cur.name, BandDims[band])))
          /\ files' = AfterTool(files, BandName(cur.name, BandDims[band]),
                                BandDims[band], o)
          /\ IF o = "error"
             THEN /\ fallback' = TRUE /\ pc' = "pipeline" /\ UNCHANGED band
             ELSE /\ UNCHANGED fallback
                  /\ IF band < 3
                     THEN band' = band + 1 /\ UNCHANGED pc
                     ELSE pc' = "combine" /\ UNCHANGED band
    /\ UNCHANGED <<viewvars, inputs, apivars, info_calls, plan, row, col, cur, dispatched, created_count,
                   result, run, firstRun>>

BandFiles(name) == {BandName(name, BandDims[b]) : b \in 1 .. 3}
RemoveAll(fs, names) == {f \in fs : f[1] \notin names}

\* gdalbuildvrt and gdal_translate cannot read a band that is missing or empty
BandsReadable(fs, name) == \A n \in BandFiles(name) : NonEmpty(fs, n)

\* gdalbuildvrt exits with an error on bands it cannot read; on readable bands
\* an error is one of the job's faults.
VrtCanBe(o, readable) ==
    IF readable THEN o = "ok" \/ faults > 0 ELSE o = "error"
VrtSpend(o, readable) == IF o = "error" /\ readable THEN faults - 1 ELSE faults

\* lines 484-489: gdalbuildvrt -separate vrt red green blue
BuildVrt ==
    /\ job = "tiles" /\ pc = "combine" /\ gdal
    /\ \E o \in {"ok", "error"} :
          /\ VrtCanBe(o, BandsReadable(files, cur.name))
          /\ faults' = VrtSpend(o, BandsReadable(files, cur.name))
          /\ exits' = Append(exits, o)
          /\ calls' = Append(calls, [tool |-> "gdalbuildvrt",
                                     bands |-> [b \in 1 .. 3 |->
                                                  BandName(cur.name, BandDims[b])],
                                     out |-> VrtName(cur.name)])
          /\ files' = AfterTool(files, VrtName(cur.name), "vrt", o)
          /\ IF o = "error"
             THEN fallback' = TRUE /\ pc' = "pipeline"
             ELSE pc' = "translate" /\ UNCHANGED fallback
    /\ UNCHANGED <<viewvars, inputs, apivars, info_calls, plan, row, col, cur, band, dispatched,
                   created_count, result, run, firstRun>>

\* lines 490-505: gdal_translate -ot Byte -scale 0 65535 0 255, then the
\* temporary files are removed and the tile counted
Translate ==
    /\ job = "tiles" /\ pc = "translate"
    /\ \E o \in Outcomes :
          /\ CanBe(o)
          /\ faults' = Spend(o)
          /\ exits' = Append(exits, o)
          /\ calls' = Append(calls, [tool |-> "gdal_translate",
                                     in |-> VrtName(cur.name),
                                     scale |-> <<0, 65535, 0, 255>>,
                                     out |-> cur.name])
          /\ IF o = "error"
             THEN /\ fallback' = TRUE /\ pc' = "pipeline"
                  /\ UNCHANGED <<files, created_count, row, col>>
             ELSE /\ files' = RemoveAll(AfterTool(files, cur.name, "rgb", o),
                                        BandFiles(cur.name) \cup {VrtName(cur.name)})
                  /\ created_count' = created_count + 1
                  /\ row' = NextRow /\ col' = NextCol
                  /\ pc' = "tile"
                  /\ UNCHANGED fallback
    /\ UNCHANGED <<viewvars, inputs, apivars, info_calls, plan, cur, band, dispatched, result, run, firstRun>>

\* lines 506-514: without the GDAL tools the red band becomes the tile;
\* shutil.move raises when the red band was not written
MoveRed ==
    /\ job = "tiles" /\ pc = "combine" /\ ~gdal
    /\ LET red == BandName(cur.name, "Red")
       IN  IF Exists(files, red)
           THEN /\ files' = RemoveAll(WriteFile(files, cur.name,
                                                  ContentOf(files, red)),
                                        BandFiles(cur.name))
                /\ created_count' = created_count + 1
                /\ row' = NextRow /\ col' = NextCol
                /\ pc' = "tile"
                /\ UNCHANGED fallback
           ELSE /\ fallback' = TRUE /\ pc' = "pipeline"
                /\ UNCHANGED <<files, created_count, row, col>>
    /\ UNCHANGED <<viewvars, inputs, apivars, info_calls, faults, plan, cur, band, calls, exits, dispatched, result,
                   run, firstRun>>

\* lines 541-555: "pdal pipeline" on pipeline_json; an error exit is caught
\* and the loop goes on, any other exit counts the tile
RunTilePipeline ==
    /\ job = "tiles" /\ pc = "pipeline"
    /\ \E o \in Outcomes :
          /\ CanBe(o)
          /\ faults' = Spend(o)
          /\ LET writer == IF fallback THEN FallbackPipeline
                           ELSE TilePipeline(mode)
             IN  /\ exits' = Append(exits, o)
                 /\ calls' = Append(calls, PdalCall(writer, cur.win, resolution,
                                                    cur.name))
                 /\ files' = AfterTool(files, cur.name, writer.dimension, o)
          /\ created_count' = IF o = "error" THEN created_count
                              ELSE created_count + 1
    /\ row' = NextRow /\ col' = NextCol
    /\ pc' = "tile"
    /\ UNCHANGED <<viewvars, inputs, apivars, info_calls, plan, cur, band, fallback, dispatched, result, run,
                   firstRun>>

\* lines 557-559: return created_count > 0
FinishTiles ==
    /\ job = "tiles" /\ pc = "tile" /\ LoopDone
    /\ pc' = "done"
    /\ result' = IF created_count > 0 THEN "True" ELSE "False"
    /\ UNCHANGED <<viewvars, inputs, apivars, info_calls, faults, plan, row, col, cur, band, fallback, calls, exits,
                   dispatched, files, created_count, run, firstRun>>

\* The caller runs the same job again on an empty output directory.
RerunTiles ==
    /\ job = "tiles" /\ pc = "done" /\ run = 1 /\ api = "script"
    /\ run' = 2
    /\ firstRun' = dispatched
    /\ pc' = "start"
    /\ plan' = [tile_size |-> 0, calc |-> -1, step |-> 0, rows |-> 0, cols |-> 0]
    /\ row' = 0 /\ col' = 0
    /\ cur' = [row |-> 0, col |-> 0, win |-> NoCrop, name |-> TileName("", 0, 0)]
    /\ band' = 1
    /\ fallback' = FALSE
    /\ calls' = <<>>
    /\ exits' = <<>>
    /\ dispatched' = <<>>
    /\ files' = {}
    /\ created_count' = 0
    /\ result' = "none"
    /\ info_calls' = 0
    /\ UNCHANGED <<viewvars, inputs, apivars, faults>>

NextTiles ==
    \/ GetLasInfoTiles
    \/ PlanTiles
    \/ TileLoop
    \/ CreateRgbBand
    \/ BuildVrt
    \/ Translate
    \/ MoveRed
    \/ RunTilePipeline
    \/ FinishTiles
    \/ RerunTiles

SpecTiles == InitTiles /\ [][NextTiles]_vars

(***************************************************************************)
(* rasterize_pointcloud: the single image.                                 *)
(***************************************************************************)
\* lasconversion.py line 207: {base}_{mode}_{resolution}m.tif
SingleName(m) == [kind |-> "single", mode |-> m, suffix |-> "", type |-> "tif"]

\* lines 98-101, 165: tmpdir/red.tif, green.tif, blue.tif, rgb.vrt
TmpName == [kind |-> "tmp", mode |-> "", suffix |-> "", type |-> "tif"]

\* shutil.rmtree(tmpdir, ignore_errors=True)
RemoveTmp(fs) == {f \in fs : f[1].kind # "tmp"}

\* lines 197-256: the writers.gdal stage of the single image in mode m
SinglePipeline(m) ==
    [dimension |-> CASE m = "elevation" -> "Z"
                     [] m = "intensity" -> "Intensity"
                     [] OTHER -> "none",
     output_type |-> IF m \in {"elevation", "intensity"} THEN "mean" ELSE "count",
     data_type |-> CASE m = "elevation" -> "float32"
                     [] m = "intensity" -> "uint16_t"
                     [] OTHER -> "uint32_t",
     predictor |-> m # "elevation"]

InitSingle ==
    /\ job = "single"
    /\ ext = Extent(Origin, 4 * DimUnit, 6 * DimUnit)
    /\ resolution = 100
    /\ tile_size0 = 0 /\ overlap = 0 /\ count = None /\ via = "function"
    /\ mode \in Modes
    /\ gdal \in BOOLEAN
    /\ faults \in 0 .. MaxFaults
    /\ cloud_rgb = TRUE /\ rasterio = FALSE /\ seed = 1
    /\ convert_to_jpg \in BOOLEAN
    /\ InitRest

\* lasconversion.py lines 205-208, las_to_images.py lines 90-101
StartSingle ==
    /\ job = "single" /\ pc = "start"
    /\ cur' = [row |-> 0, col |-> 0, win |-> NoCrop, name |-> SingleName(mode)]
    /\ dispatched' = <<cur'>>
    /\ calls' = <<>>
    /\ exits' = <<>>
    /\ band' = 1
    /\ fallback' = FALSE
    /\ pc' = IF mode = "rgb" THEN "sband" ELSE "spipeline"
    /\ UNCHANGED <<viewvars, inputs, apivars, info_calls, faults, plan, row,
                   col, files, created_count, result, run, firstRun>>

\* lines 103-151: pdal_band for Red, Green, Blue; an error exit raises at once,
\* a band that is missing after the three raises at line 141, and either way
\* tmpdir is removed and the intensity fallback runs; without the GDAL tools
\* (lines 154-163) it runs as well
SingleBand ==
    /\ job = "single" /\ pc = "sband"
    /\ \E o \in Outcomes :
          /\ CanBe(o)
          /\ faults' = Spend(o)
          /\ exits' = Append(exits, o)
          /\ calls' = Append(calls, PdalCall(BandPipeline(BandDims[band]), NoCrop,
                                             resolution,
                                             BandName(TmpName, BandDims[band])))
          /\ LET fs == AfterTool(files, BandName(TmpName, BandDims[band]),
                                 BandDims[band], o)
                 allThere == \A n \in BandFiles(TmpName) : Exists(fs, n)
             IN  IF o = "error" \/ (band = 3 /\ (~allThere \/ ~gdal))
                 THEN /\ files' = RemoveTmp(fs)
                      /\ fallback' = TRUE
                      /\ pc' = "spipeline"
                      /\ UNCHANGED band
                 ELSE /\ files' = fs
                      /\ UNCHANGED fallback
                      /\ IF band < 3
                         THEN band' = band + 1 /\ UNCHANGED pc
                         ELSE pc' = "svrt" /\ UNCHANGED band
    /\ UNCHANGED <<viewvars, inputs, apivars, info_calls, plan, row, col, cur,
                   dispatched, created_count, result, run, firstRun>>

\* lines 165-169: gdalbuildvrt -separate rgb.vrt red green blue; an error exit
\* removes tmpdir and runs the intensity fallback (lines 186-194)
SingleVrt ==
    /\ job = "single" /\ pc = "svrt"
    /\ \E o \in {"ok", "error"} :
          /\ VrtCanBe(o, BandsReadable(files, TmpName))
          /\ faults' = VrtSpend(o, BandsReadable(files, TmpName))
          /\ exits' = Append(exits, o)
          /\ calls' = Append(calls, [tool |-> "gdalbuildvrt",
                                     bands |-> [b \in 1 .. 3 |->
                                                  BandName(TmpName, BandDims[b])],
                                     out |-> VrtName(TmpName)])
          /\ IF o = "error"
             THEN /\ files' = RemoveTmp(files)
                  /\ fallback' = TRUE
                  /\ pc' = "spipeline"
             ELSE /\ files' = AfterTool(files, VrtName(TmpName), "vrt", o)
                  /\ pc' = "stranslate"
                  /\ UNCHANGED fallback
    /\ UNCHANGED <<viewvars, inputs, apivars, info_calls, plan, row, col, cur,
                   band, dispatched, created_count, result, run, firstRun>>

\* lines 174-196: gdal_translate -ot Byte -scale 0 65535 0 255; exit 0 returns
\* (True, None) with no look at the output file, an error exit runs the
\* intensity fallback; tmpdir is removed on every path
SingleTranslate ==
    /\ job = "single" /\ pc = "stranslate"
    /\ \E o \in Outcomes :
          /\ CanBe(o)
          /\ faults' = Spend(o)
          /\ exits' = Append(exits, o)
          /\ calls' = Append(calls, [tool |-> "gdal_translate",
                                     in |-> VrtName(TmpName),
                                     scale |-> <<0, 65535, 0, 255>>,
                                     out |-> cur.name])
          /\ files' = RemoveTmp(AfterTool(files, cur.name, "rgb", o))
          /\ IF o = "error"
             THEN fallback' = TRUE /\ pc' = "spipeline" /\ UNCHANGED result
             ELSE result' = "True" /\ pc' = "done" /\ UNCHANGED fallback
    /\ UNCHANGED <<viewvars, inputs, apivars, info_calls, plan, row, col, cur,
                   band, dispatched, created_count, run, firstRun>>

\* lines 258-298: "pdal pipeline" for one dimension, the mode's own or the
\* fallback's intensity (lines 148, 160, 191); success needs exit 0 and an
\* output file that exists and is not empty
SinglePipelineRun ==
    /\ job = "single" /\ pc = "spipeline"
    /\ \E o \in Outcomes :
          /\ CanBe(o)
          /\ faults' = Spend(o)
          /\ LET writer == SinglePipeline(IF fallback THEN "intensity" ELSE mode)
             IN  /\ exits' = Append(exits, o)
                 /\ calls' = Append(calls, PdalCall(writer, NoCrop, resolution,
                                                    cur.name))
                 /\ files' = AfterTool(files, cur.name, writer.dimension, o)
          /\ result' = IF o = "ok" THEN "True" ELSE "False"
    /\ pc' = "done"
    /\ UNCHANGED <<viewvars, inputs, apivars, info_calls, plan, row, col, cur,
                   band, fallback, dispatched, created_count, run, firstRun>>

NextSingle ==
    \/ StartSingle
    \/ SingleBand
    \/ SingleVrt
    \/ SingleTranslate
    \/ SinglePipelineRun

SpecSingle == InitSingle /\ [][NextSingle]_vars

(***************************************************************************)
(* create_perspective_views.                                               *)
(***************************************************************************)
ViewCounts == {0 - 1, 0} \cup (1 .. MaxViewCount) \cup {11, 30}
ViewExtents ==
    {Extent(Origin, 4 * DimUnit, 6 * DimUnit), Extent(Origin, 0, 4 * DimUnit),
     Extent(<<0, 0>>, DimUnit, DimUnit)}

\* The sampler's inputs in all combinations, dispatched in intensity mode.
InitSampler ==
    /\ ext \in ViewExtents
    /\ resolution \in {0, 100}
    /\ count \in ViewCounts
    /\ seed \in 1 .. MaxSeed
    /\ mode = "intensity" /\ cloud_rgb = TRUE /\ rasterio = FALSE
    /\ faults \in {0, 1}
    /\ convert_to_jpg = TRUE

\* A few views, dispatched in every mode with tools that may fail.
InitViewDispatch ==
    /\ ext = Extent(Origin, 4 * DimUnit, 6 * DimUnit)
    /\ resolution = 100
    /\ count \in 1 .. 3
    /\ seed = 1
    /\ mode \in Modes
    /\ cloud_rgb \in BOOLEAN
    /\ rasterio \in BOOLEAN
    /\ faults \in 0 .. MaxFaults
    /\ convert_to_jpg \in BOOLEAN

InitViews ==
    /\ job = "views"
    /\ tile_size0 = 0 /\ overlap = 0 /\ gdal = TRUE /\ via = "function"
    /\ InitSampler \/ InitViewDispatch
    /\ InitRest

\* lines 582-586: get_las_info; on failure the function returns False
GetLasInfoViews ==
    /\ job = "views" /\ pc = "start"
    /\ \E ok \in BOOLEAN :
          /\ ok \/ faults > 0
          /\ faults' = IF ok THEN faults ELSE faults - 1
          /\ pc' = IF ~ok THEN "returned"
                   ELSE IF vmode = "rgb" THEN "probe" ELSE "check"
          /\ result' = IF ok THEN result ELSE "False"
    /\ info_calls' = info_calls + 1
    /\ UNCHANGED <<viewvars, tilevars, inputs, apivars, band, fallback, calls, exits,
                   dispatched, files, created_count>>

\* A slip: the requested mode kept whatever the probe found.
ProbedModeKept(has_rgb) == vmode

\* lines 626-629: without has_rgb the mode becomes "intensity"
ProbedMode(has_rgb) == IF has_rgb THEN vmode ELSE "intensity"

\* lines 599-630: "pdal info --metadata" tells whether the cloud has Red, Green
\* and Blue; when it fails or finds none, mode becomes "intensity"
ProbeRgb ==
    /\ job = "views" /\ pc = "probe"
    /\ \E ok \in BOOLEAN :
          /\ ok \/ faults > 0
          /\ faults' = IF ok THEN faults ELSE faults - 1
          /\ vmode' = ProbedMode(ok /\ cloud_rgb)
    /\ pc' = "check"
    /\ info_calls' = info_calls + 1
    /\ UNCHANGED <<draws, i, view, tilevars, inputs, apivars, band, fallback, calls, exits,
                   dispatched, files, created_count, result>>

\* lines 658-678: an invalid resolution returns False; math.sqrt(count) raises
\* for a negative count and width / grid_size for a count of 0
CheckAndGrid ==
    /\ job = "views" /\ pc = "check"
    /\ IF resolution <= 0
       THEN pc' = "returned" /\ result' = "False"
       ELSE IF count < 0
       THEN pc' = "crashed" /\ result' = "ValueError"
       ELSE IF count = 0
       THEN pc' = "crashed" /\ result' = "ZeroDivisionError"
       ELSE pc' = "view" /\ UNCHANGED result
    /\ i' = 0
    /\ UNCHANGED <<vmode, draws, view, tilevars, inputs, apivars, info_calls, faults, band,
                   fallback, calls, exits, dispatched, files, created_count>>

\* A slip: the loop left at the first view that fails.
AfterFailedViewBreak == count

\* lines 1050-1052: "except Exception ... continue": on to the next view
AfterFailedView == i + 1

\* lines 680-727: the head of one iteration, up to the first external call
PlanView ==
    /\ job = "views" /\ pc = "view" /\ i < count
    /\ LET az == ViewAzimuth(i, count, seed, draws)
           el == ViewElevation(i, count, seed, draws)
       IN  view' = [index |-> i, azimuth |-> az, elevation |-> el,
                    win |-> ViewWindow(ext, count, i),
                    resolution |-> ViewResolution(resolution, count, seed, draws),
                    name |-> ViewName(i, az, el)]
    /\ draws' = draws + DrawsPerView(count)
    /\ dispatched' = Append(dispatched, view')
    /\ calls' = <<>>
    /\ exits' = <<>>
    /\ band' = 1
    /\ pc' = IF vmode = "rgb" THEN "vband" ELSE "vpipeline"
    /\ UNCHANGED <<vmode, i, tilevars, inputs, apivars, info_calls, faults, fallback, files,
                   created_count, result>>

\* lines 732-779: one RGB band of the view; an error exit, a missing file and
\* an empty file all end the band loop with rgb_success = False
ViewBand ==
    /\ job = "views" /\ pc = "vband"
    /\ \E o \in Outcomes :
          /\ CanBe(o)
          /\ faults' = Spend(o)
          /\ exits' = Append(exits, o)
          /\ calls' = Append(calls, PdalCall(BandPipeline(BandDims[band]),
                                             CropOf(view.win), view.resolution,
                                             BandName(view.name, BandDims[band])))
          /\ files' = AfterTool(files, BandName(view.name, BandDims[band]),
                                BandDims[band], o)
          /\ IF o # "ok"
             THEN pc' = "vfallback" /\ UNCHANGED band
             ELSE IF band < 3
             THEN band' = band + 1 /\ UNCHANGED pc
             ELSE pc' = "vcombine" /\ UNCHANGED band
    /\ UNCHANGED <<viewvars, tilevars, inputs, apivars, info_calls, fallback, dispatched,
                   created_count, result>>

\* A slip: the fallback issued again after it failed.
AfterFallbackRetry(o) == IF o = "error" THEN "vfallback" ELSE "view"

\* lines 814-825, 1050-1052: whatever the fallback's exit, the loop goes on to
\* the next view
AfterFallback(o) == "view"

\* lines 781-825: the intensity fallback of the view; an error exit raises past
\* the removal of the partial band files into "except Exception" (line 1050)
ViewFallback ==
    /\ job = "views" /\ pc = "vfallback"
    /\ \E o \in Outcomes :
          /\ CanBe(o)
          /\ faults' = Spend(o)
          /\ exits' = Append(exits, o)
          /\ calls' = Append(calls, PdalCall(FallbackPipeline, CropOf(view.win),
                                             view.resolution, view.name))
          /\ IF o = "error"
             THEN /\ i' = AfterFailedView
                  /\ UNCHANGED <<files, created_count>>
             ELSE /\ files' = RemoveAll(AfterTool(files, view.name, "Intensity", o),
                                        BandFiles(view.name))
                  /\ created_count' = created_count + 1
                  /\ i' = i + 1
          /\ pc' = AfterFallback(o)
    /\ UNCHANGED <<vmode, draws, view, tilevars, inputs, apivars, info_calls, band, fallback,
                   dispatched, result>>

\* lines 827-829: shutil is imported nowhere in this function or at module
\* level, so shutil.which raises NameError, which "except Exception" (line
\* 1050) catches: the view is given up with its three band files left behind
ViewCombine ==
    /\ job = "views" /\ pc = "vcombine"
    /\ i' = AfterFailedView
    /\ pc' = "view"
    /\ UNCHANGED <<vmode, draws, view, tilevars, inputs, apivars, info_calls, faults, band,
                   fallback, calls, exits, dispatched, files, created_count, result>>

\* A raster of zeros ("black") is not counted when rasterio is there to see it.
ViewOutcomes == Outcomes \cup {"black"}

\* lines 1005-1048: the pipeline of a view in a mode other than rgb; the view
\* is counted when the output exists, is not empty and is not seen to be black
ViewPipeline ==
    /\ job = "views" /\ pc = "vpipeline"
    /\ \E o \in ViewOutcomes :
          /\ CanBe(o)
          /\ faults' = Spend(o)
          /\ exits' = Append(exits, o)
          /\ calls' = Append(calls, PdalCall(ViewPipelineWriter(vmode),
                                             CropOf(view.win), view.resolution,
                                             view.name))
          /\ files' = AfterTool(files, view.name,
                                ViewPipelineWriter(vmode).dimension,
                                IF o = "black" THEN "ok" ELSE o)
          /\ created_count' = IF o = "ok" \/ (o = "black" /\ ~rasterio)
                              THEN created_count + 1
                              ELSE created_count
          /\ i' = IF o = "error" THEN AfterFailedView ELSE i + 1
    /\ pc' = "view"
    /\ UNCHANGED <<vmode, draws, view, tilevars, inputs, apivars, info_calls, band, fallback,
                   dispatched, result>>

\* lines 1054-1056: return created_count > 0
FinishViews ==
    /\ job = "views" /\ pc = "view" /\ i >= count
    /\ pc' = "done"
    /\ result' = IF created_count > 0 THEN "True" ELSE "False"
    /\ UNCHANGED <<viewvars, tilevars, inputs, apivars, info_calls, faults, band, fallback, calls, exits,
                   dispatched, files, created_count>>

NextViews ==
    \/ GetLasInfoViews
    \/ ProbeRgb
    \/ CheckAndGrid
    \/ PlanView
    \/ ViewBand
    \/ ViewFallback
    \/ ViewCombine
    \/ ViewPipeline
    \/ FinishViews

SpecViews == InitViews /\ [][NextViews]_vars

(***************************************************************************)
(* lasconversion.py: the request around the conversion function.           *)
(***************************************************************************)
\* Path.glob on the output directory, by what the pattern asks of a name:
\* "*view*.tif", f"*{mode}*tile*.tif", "*_tile_*.tif", "*.tif".  A view's name
\* holds the mode only if the upload's base name does, which is not modelled.
Matches(pat, name) ==
    /\ name.type = "tif" /\ name.kind # "tmp"
    /\ CASE pat = "view" -> name.kind = "view"
         [] pat = "mode_tile" -> name.kind = "tile" /\ name.mode = mode
         [] pat = "mode_view" -> FALSE
         [] pat = "tile" -> name.kind = "tile"
         [] OTHER -> TRUE
Glob(fs, pat) == {f[1] : f \in {g \in fs : Matches(pat, g[1])}}

\* lines 118-122 and 168-173: the patterns tried in turn
Patterns ==
    IF job = "views" THEN <<"view", "mode_view", "any">>
    ELSE <<"mode_tile", "view", "tile", "any">>

\* lines 123-128 and 174-179: the files of the first pattern that finds any
RECURSIVE FirstMatch(_, _)
FirstMatch(fs, pats) ==
    IF pats = <<>> THEN {}
    ELSE IF Glob(fs, Head(pats)) # {} THEN Glob(fs, Head(pats))
    ELSE FirstMatch(fs, Tail(pats))

\* A slip: the conversion function's return value taken for the outcome.
ApiSuccessFromScript(found, script_ok) == script_ok

\* lines 130-136, 181-194, 214-222: success when files were found, whatever the
\* function returned; with none found the request fails either way
ApiSuccess(found, script_ok) == found # {}

Ended == pc \in {"done", "returned", "crashed"}

\* lines 96-224: what convert_las_to_images of the API returns once the
\* conversion function has ended; an exception out of it is caught and
\* returned as a failure
Collect ==
    /\ api = "script" /\ Ended
    /\ IF job = "single"
       THEN IF result = "True"
            THEN api' = "collected" /\ tif_files' = {cur.name}
            ELSE api' = "failed" /\ tif_files' = {}
       ELSE LET found == FirstMatch(files, Patterns)
            IN  IF pc # "crashed" /\ ApiSuccess(found, result = "True")
                THEN api' = "collected" /\ tif_files' = found
                ELSE api' = "failed" /\ tif_files' = {}
    /\ UNCHANGED <<viewvars, tilevars, inputs, info_calls, faults, pc, band,
                   fallback, calls, exits, dispatched, files, created_count,
                   result, reported, filename, served>>

JpgName(name) == [name EXCEPT !.type = "jpg"]

\* What gdal_translate -of JPEG leaves for one TIF: a JPEG ("ok"), a file that
\* does not start with the JPEG marker ("invalid"), a zero-byte file, no file,
\* or an error exit.
JpgOutcomes == Outcomes \cup {"invalid"}
JpgContent(o) ==
    [holds |-> IF o = "ok" THEN "jpeg" ELSE "invalid",
     bytes |-> IF o = "empty" THEN 0 ELSE 1]

\* lines 353-592: convert_tifs_to_jpgs skips a TIF that is empty, and lists
\* the JPEGs that exist, are not empty and start with the JPEG marker
JpgListed(out) == {JpgName(n) : n \in {t \in DOMAIN out : out[t] = "ok"}}
JpgWritten(out) ==
    {JpgName(n) : n \in {t \in DOMAIN out : out[t] \in {"ok", "invalid", "empty"}}}

\* lines 711-762: the files the response names
OutputFiles(existing, listed, in_jpg_dir) ==
    LET output_files == IF listed # {} THEN listed ELSE existing
    IN  IF convert_to_jpg /\ in_jpg_dir # {}
           /\ Cardinality(output_files) = Cardinality(existing)
        THEN in_jpg_dir
        ELSE output_files

\* lines 696-787: LASConversionView.post after a successful conversion
Respond ==
    /\ api = "collected"
    /\ \E o \in JpgOutcomes, some \in BOOLEAN :
          /\ o # "ok" => faults > 0 /\ convert_to_jpg /\ gdal
          /\ o = "ok" => ~some
          /\ \E convertible \in {{n \in Glob(files, "any") : NonEmpty(files, n)}} :
                /\ o # "ok" => convertible # {}
                /\ \E hit \in {IF some /\ convertible # {}
                                THEN {CHOOSE n \in convertible : TRUE}
                                ELSE convertible} :
                   \E out \in {IF convert_to_jpg /\ gdal
                                THEN [n \in convertible |->
                                         IF n \in hit THEN o ELSE "ok"]
                                ELSE [n \in {} |-> "ok"]} :
                      /\ files' = files \cup
                             {<<JpgName(n), JpgContent(out[n])>> :
                                 n \in {t \in DOMAIN out : out[t] \in
                                            {"ok", "invalid", "empty"}}}
                      /\ reported' =
                             OutputFiles({n \in tif_files : Exists(files, n)},
                                         JpgListed(out), JpgWritten(out))
          /\ faults' = IF o = "ok" THEN faults ELSE faults - 1
    /\ api' = "responded"
    /\ UNCHANGED <<viewvars, tilevars, inputs, info_calls, pc, band, fallback,
                   calls, exits, dispatched, created_count, result, tif_files,
                   filename, served>>

NextApi == Collect \/ Respond

(***************************************************************************)
(* lasconversion.py: LASConversionDownloadView.                            *)
(***************************************************************************)
\* lines 661-669, 748, 788-793: the job's directory holds the upload and, once
\* the response is built, converted_images.zip; its jpg and tif folders hold
\* the images; a failed request removes the directory
PathExists(p) ==
    /\ api # "failed"
    /\ CASE p[1] = "root" ->
               p[2] = UploadName \/ (p[2] = ZipName /\ api = "responded")
         [] p[1] = "jpg" -> p[2].type = "jpg" /\ Exists(files, p[2])
         [] OTHER ->
               p[2].type # "jpg" /\ p[2].kind # "tmp" /\ Exists(files, p[2])

\* lines 810-815: the places looked at, in this order
PossiblePaths(fn) ==
    <<<<"root", ZipName>>, <<"jpg", fn>>, <<"tif", fn>>, <<"root", fn>>>>

\* lines 817-824: the first path that exists, or NotFound
RECURSIVE FirstExisting(_)
FirstExisting(paths) ==
    IF paths = <<>> THEN NotFound
    ELSE IF PathExists(Head(paths)) THEN Head(paths)[2]
    ELSE FirstExisting(Tail(paths))

\* The file names a download may ask for: the archive, the upload, every file
\* the conversion wrote, and a name no file has.
RequestNames ==
    {ZipName, UploadName, MissingName}
        \cup {f[1] : f \in {g \in files : g[1].kind # "tmp"}}

\* lines 804-838: GET /api/las-convert/download/<temp_dir>/<filename>, which
\* may come while the conversion runs, after its response or after it failed
Download ==
    /\ served = NoFile
    /\ \E fn \in RequestNames :
          /\ filename' = fn
          /\ served' = FirstExisting(PossiblePaths(fn))
    /\ UNCHANGED <<viewvars, tilevars, inputs, info_calls, faults, pc, band,
                   fallback, calls, exits, dispatched, files, created_count,
                   result, api, tif_files, reported>>

\* The handler looks at nothing but the job's directory: it is checked on the
\* requests for a single image.
SpecDownload == InitSingle /\ [][NextSingle \/ NextApi \/ Download]_vars

Init == InitTiles \/ InitViews \/ InitSingle
Next == NextTiles \/ NextViews \/ NextSingle \/ NextApi
Spec == Init /\ [][Next]_vars

(***************************************************************************)
(* Properties.                                                             *)
(***************************************************************************)
ValidOverlap == 0 <= overlap /\ overlap < OvDen
PositiveExtent == WidthM(ext) > 0 /\ HeightM(ext) > 0
\* The planning pass of a tile job has run.
Planned ==
    /\ job = "tiles"
    /\ pc \in {"tile", "band", "combine", "translate", "pipeline", "done"}
TilesDone == job = "tiles" /\ pc = "done"

LeastCover(n, len, step) == (n - 1) * step < len /\ len <= n * step

GridExact ==
    /\ plan.step > 0
    /\ plan.cols >= 1 /\ plan.rows >= 1
    /\ LeastCover(plan.cols, Width(ext), plan.step)
    /\ LeastCover(plan.rows, Height(ext), plan.step)
    /\ \A k \in 1 .. Len(dispatched) :
          /\ dispatched[k].win.min_x < dispatched[k].win.max_x
          /\ dispatched[k].win.min_y < dispatched[k].win.max_y
    /\ pc = "tile" => Len(dispatched) = row * plan.cols + col
    /\ pc = "done" => Len(dispatched) = plan.rows * plan.cols

\* C2 as stated: for every extent, every tile_size > 0 and every overlap in
\* [0,1) the planner computes cols = ceil(width/step), rows = ceil(height/step),
\* both at least 1, and dispatches exactly rows*cols windows, none degenerate.
C2_Original == (Planned /\ ValidOverlap) => GridExact

\* C2 amended: the same for every extent of positive width and height: cols and
\* rows are the least numbers of steps that cover the width and the height,
\* both are at least 1, no window is dropped (after row rows and col columns
\* exactly row*cols + col windows were dispatched, rows*cols at the end) and
\* every dispatched window has min_x < max_x and min_y < max_y.
C2_GridExact == (Planned /\ ValidOverlap /\ PositiveExtent) => GridExact

C2_Witness ==
    /\ TilesDone /\ ValidOverlap /\ PositiveExtent
    /\ plan.cols >= 2 /\ plan.rows >= 3
    /\ Len(dispatched) = plan.rows * plan.cols
    /\ Width(ext) < plan.cols * plan.step

\* Coordinates doubled, so that the midpoint of two coordinates is a whole number.
Edges2(lo, hi, S) == {2 * lo * Fine, 2 * hi * Fine} \cup {2 * v : v \in S}
Adjacent(a, b, S) == a < b /\ ~ \E c \in S : a < c /\ c < b
Probes(S) ==
    S \cup {(p[1] + p[2]) \div 2 : p \in {q \in S \X S : Adjacent(q[1], q[2], S)}}
WinsX == {dispatched[k].win.min_x : k \in 1 .. Len(dispatched)}
            \cup {dispatched[k].win.max_x : k \in 1 .. Len(dispatched)}
WinsY == {dispatched[k].win.min_y : k \in 1 .. Len(dispatched)}
            \cup {dispatched[k].win.max_y : k \in 1 .. Len(dispatched)}
InExtent2(x, lo, hi) == 2 * lo * Fine <= x /\ x <= 2 * hi * Fine
ProbesX == {x \in Probes(Edges2(ext.minx, ext.maxx, WinsX)) :
               InExtent2(x, ext.minx, ext.maxx)}
ProbesY == {y \in Probes(Edges2(ext.miny, ext.maxy, WinsY)) :
               InExtent2(y, ext.miny, ext.maxy)}
Contains2(w, x, y) ==
    /\ 2 * w.min_x <= x /\ x <= 2 * w.max_x
    /\ 2 * w.min_y <= y /\ y <= 2 * w.max_y

\* C3: for an extent of positive width and height, tile_size > 0 and overlap in
\* [0,1), every point of the extent lies in at least one dispatched window.
\* The windows are rectangles, so it is enough to probe every edge coordinate
\* of the extent and of the windows and the midpoint of every two neighbouring
\* edge coordinates, on both axes.
C3_Covers ==
    (TilesDone /\ ValidOverlap /\ PositiveExtent) =>
        \A x \in ProbesX, y \in ProbesY :
            \E k \in 1 .. Len(dispatched) : Contains2(dispatched[k].win, x, y)

C3_Witness ==
    /\ TilesDone /\ ValidOverlap /\ PositiveExtent
    /\ overlap > 0 /\ plan.cols >= 3 /\ plan.rows >= 2
    /\ WidthM(ext) # HeightM(ext)

\* C4: for the extent (0,0)-(1000,1000), tile_size 100, overlap 0.3 and no
\* count the planner uses step 70 and 15 columns and rows, dispatches 225
\* windows, window (row, col) starts at (70 col, 70 row), and the windows of
\* the last column and row start at 980 and end at exactly 1000 (their
\* unclamped end would be 1080).
C4_Scenario ==
    (IsScenario /\ Planned) =>
        /\ plan.tile_size = 100 * Fine
        /\ plan.step = 70 * Fine
        /\ plan.cols = 15 /\ plan.rows = 15
        /\ pc = "done" => Len(dispatched) = 225
        /\ \A k \in 1 .. Len(dispatched) :
              LET d == dispatched[k]
              IN  /\ d.col = 14 => d.win.min_x = 980 * Fine /\ d.win.max_x = 1000 * Fine
                  /\ d.row = 14 => d.win.min_y = 980 * Fine /\ d.win.max_y = 1000 * Fine
                  /\ d.win.min_x = d.col * 70 * Fine
                  /\ d.win.min_y = d.row * 70 * Fine

C4_Witness ==
    /\ IsScenario /\ pc = "done" /\ Len(dispatched) = 225
    /\ dispatched[225].row = 14 /\ dispatched[225].col = 14

\* C5 as stated: with overlap >= 1 create_multiview_images dispatches no
\* rasterization call and produces no tile.
C5_OverlapRejected ==
    (job = "tiles" /\ overlap >= OvDen) =>
        /\ dispatched = <<>> /\ calls = <<>>
        /\ files = {} /\ created_count = 0
        /\ result # "True"

UpperClamp == (Max2(Width(ext), Height(ext)) * 9) \div 10

\* C6 as stated: the tile size recalculated from a positive count on an extent
\* of positive area is always within [10, 0.9 * max(width, height)].
C6_Original ==
    (Planned /\ ValidOverlap /\ plan.calc # -1) =>
        10 * Fine <= plan.calc /\ plan.calc <= UpperClamp

\* C6 amended: the recalculated tile size is always at least 10; it is at most
\* 0.9 * max(width, height) whenever that is at least 10, and exactly 10
\* otherwise.
C6_ClampedSize ==
    (Planned /\ ValidOverlap /\ plan.calc # -1) =>
        /\ 10 * Fine <= plan.calc
        /\ UpperClamp >= 10 * Fine => plan.calc <= UpperClamp
        /\ UpperClamp < 10 * Fine => plan.calc = 10 * Fine

C6_Witness ==
    /\ Planned /\ ValidOverlap /\ plan.calc # -1
    /\ plan.calc = UpperClamp /\ UpperClamp > 10 * Fine
    /\ plan.tile_size = plan.calc

CountRange == 1 .. 30
SizeFor(n) == FinalTileSize(tile_size0, ext, overlap, n)

\* C7 as stated: with extent, overlap and initial tile_size fixed, a larger
\* count never yields a smaller or equal tile size than a smaller count.
C7_Original ==
    (Planned /\ ValidOverlap /\ PositiveExtent /\ count > 0) =>
        \A n \in CountRange :
            /\ n < count => plan.tile_size > SizeFor(n)
            /\ n > count => SizeFor(n) > plan.tile_size

\* C7 amended: with extent, overlap and initial tile_size fixed, a larger
\* count never yields a larger tile size than a smaller count.
C7_Monotone ==
    (Planned /\ ValidOverlap /\ count > 0) =>
        \A n \in CountRange :
            /\ n < count => plan.tile_size <= SizeFor(n)
            /\ n > count => SizeFor(n) <= plan.tile_size

C7_Witness ==
    /\ Planned /\ ValidOverlap /\ count > 1
    /\ plan.tile_size = plan.calc
    /\ plan.tile_size < SizeFor(1)
    /\ SizeFor(30) < plan.tile_size

RowMajorIndex(d) == d.row * plan.cols + d.col

\* C8: the tiles are dispatched in row-major order, each with the window and
\* the output name of its (row, col), and a second run on the same inputs
\* dispatches the identical sequence, whatever the engine did in either run.
C8_RowMajor ==
    Planned =>
        /\ \A k \in 1 .. Len(dispatched) :
              LET d == dispatched[k]
              IN  /\ d.row \in 0 .. plan.rows - 1
                  /\ d.col \in 0 .. plan.cols - 1
                  /\ d.win = TileWindow(ext, plan.tile_size, plan.step, d.row, d.col)
                  /\ d.name = TileName(mode, d.row, d.col)
        /\ \A k \in 1 .. Len(dispatched) - 1 :
              RowMajorIndex(dispatched[k]) < RowMajorIndex(dispatched[k + 1])
        /\ (PositiveExtent /\ dispatched # <<>>) =>
              dispatched[1].row = 0 /\ dispatched[1].col = 0
        /\ (run = 2 /\ pc = "done") => dispatched = firstRun

C8_Witness ==
    /\ TilesDone /\ run = 2
    /\ plan.cols >= 2 /\ plan.rows >= 2
    /\ Len(dispatched) = plan.rows * plan.cols
    /\ dispatched = firstRun
    /\ created_count < Len(dispatched)

Inside(w) ==
    /\ ext.minx * Fine <= w.min_x /\ w.max_x <= ext.maxx * Fine
    /\ ext.miny * Fine <= w.min_y /\ w.max_y <= ext.maxy * Fine

ValidCount == IF job = "views" THEN count >= 1 ELSE count = None \/ count >= 1

\* C1: for an extent with max >= min on both axes, a tile_size > 0, an overlap
\* in [0,1) and a count >= 1, every crop window that create_multiview_images or
\* create_perspective_views plans, and every crop it hands to the rasterization
\* engine, lies inside the extent on both axes.
C1_WindowsInside ==
    (job \in {"tiles", "views"} /\ ValidOverlap /\ ValidCount) =>
        /\ \A k \in 1 .. Len(dispatched) : Inside(dispatched[k].win)
        /\ \A k \in 1 .. Len(calls) :
              (calls[k].tool = "pdal" /\ calls[k].crop # NoCrop)
                  => Inside(calls[k].crop)

\* A view off the first grid column and row has been handed to the engine with
\* its crop.
C1_Witness ==
    /\ job = "views" /\ ValidCount /\ count > 10
    /\ calls # <<>>
    /\ calls[1].crop # NoCrop
    /\ calls[1].crop.min_x > ext.minx * Fine
    /\ calls[1].crop.min_y > ext.miny * Fine
    /\ Inside(calls[1].crop)

ViewsDone == job = "views" /\ pc = "done"
Indices(n) == [k \in 1 .. n |-> k - 1]
PlannedIndices == [k \in 1 .. Len(dispatched) |-> dispatched[k].index]

\* C9: for every count >= 1 and base resolution > 0, create_perspective_views
\* plans exactly count views, one per index 0..count-1 in increasing order, and
\* attempts each exactly once whether or not an earlier view failed: between
\* iterations the views planned so far are 0..i-1, the last of them has been
\* handed to the engine, and at the return all count of them have been.
C9_EveryViewOnce ==
    (job = "views" /\ count >= 1 /\ resolution > 0) =>
        /\ PlannedIndices = Indices(Len(dispatched))
        /\ Len(dispatched) <= count
        /\ pc = "view" => Len(dispatched) = i
        /\ (pc = "view" /\ i > 0) =>
              /\ calls # <<>>
              /\ \A k \in 1 .. Len(calls) :
                    calls[k].out.index = dispatched[i].name.index
        /\ pc = "done" => Len(dispatched) = count

\* The first of three views failed at the engine and left no file; the third
\* was still planned and attempted, and its file is there.
C9_Witness ==
    /\ ViewsDone /\ count = 3 /\ resolution > 0
    /\ Len(dispatched) = 3
    /\ ~Exists(files, dispatched[1].name)
    /\ NonEmpty(files, dispatched[3].name)
    /\ created_count < count

\* C10 as stated: for every count >= 1 and every outcome of the jitter each
\* planned view has elevation in [10, 85] and azimuth in [0, 360), the values
\* in its output filename included.
C10_AnglesInRange ==
    (job = "views" /\ count >= 1) =>
        \A k \in 1 .. Len(dispatched) :
            /\ 10 * Milli <= dispatched[k].elevation
            /\ dispatched[k].elevation <= 85 * Milli
            /\ 0 <= dispatched[k].azimuth
            /\ dispatched[k].azimuth < 360 * Milli
            /\ dispatched[k].name.el \in 10 .. 85
            /\ dispatched[k].name.az \in 0 .. 359

\* What does hold of the angles: the elevation is in [10, 85] whatever the
\* jitter, and the azimuth within 5 degrees of [0, 360).
C10_ElevationInRange ==
    (job = "views" /\ count >= 1) =>
        \A k \in 1 .. Len(dispatched) :
            /\ 10 * Milli <= dispatched[k].elevation
            /\ dispatched[k].elevation <= 85 * Milli
            /\ dispatched[k].name.el \in 10 .. 85
            /\ (0 - 5) * Milli <= dispatched[k].azimuth
            /\ dispatched[k].azimuth < 360 * Milli
            /\ ~Jittered(count) => dispatched[k].azimuth >= 0

\* Thirty views planned with the jitter at its lowest: the first view's azimuth
\* is below 0, in the view and in its filename.
C10_Witness ==
    /\ job = "views" /\ count = 30 /\ Len(dispatched) = 30
    /\ dispatched[1].azimuth < 0
    /\ dispatched[1].name.az < 0

InvalidParameter ==
    \/ job = "views" /\ (count <= 0 \/ resolution <= 0)
    \/ job = "tiles" /\ overlap >= OvDen
\* C11 as stated: a job with an invalid planner parameter (count <= 0 or
\* resolution <= 0 for views, overlap >= 1 for tiles) is rejected before any
\* external call: it issues no "pdal info" call and no rasterize call, and it
\* does not end in success.
C11_RejectedBeforeCalls ==
    InvalidParameter =>
        /\ info_calls = 0
        /\ calls = <<>> /\ dispatched = <<>>
        /\ Ended => result # "True"

\* C12 as stated: the filename of each view embeds the sampler index i of
\* 0..count-1, zero-padded to 3 digits, then int(azimuth) and int(elevation).
C12_Original ==
    (job = "views" /\ count >= 1) =>
        \A k \in 1 .. Len(dispatched) :
            /\ dispatched[k].index = k - 1
            /\ dispatched[k].name.index = Fmt03d(dispatched[k].index)
            /\ dispatched[k].name.az = IntTrunc(dispatched[k].azimuth)
            /\ dispatched[k].name.el = IntTrunc(dispatched[k].elevation)

\* C12 amended: the filename of the view with sampler index i of 0..count-1
\* embeds i + 1 (views are numbered from 001), zero-padded to 3 digits, then
\* int(azimuth) and int(elevation) of that same view, the angles being those
\* the sampler derives from i.
C12_NameFromIndex ==
    (job = "views" /\ count >= 1) =>
        \A k \in 1 .. Len(dispatched) :
            /\ dispatched[k].index = k - 1
            /\ dispatched[k].name.index = Fmt03d(dispatched[k].index + 1)
            /\ dispatched[k].name.az = IntTrunc(dispatched[k].azimuth)
            /\ dispatched[k].name.el = IntTrunc(dispatched[k].elevation)
            /\ dispatched[k].win = ViewWindow(ext, count, dispatched[k].index)
            /\ ~Jittered(count) =>
                  /\ dispatched[k].azimuth = BaseAzimuth(dispatched[k].index, count)
                  /\ dispatched[k].elevation = BaseElevation(dispatched[k].index)

\* Nine views planned without jitter: the last has index 8, is named 009, and
\* its name carries az320 and el10.
C12_Witness ==
    /\ job = "views" /\ count = 9 /\ Len(dispatched) = 9
    /\ dispatched[9].index = 8
    /\ dispatched[9].name.index = <<0, 0, 9>>
    /\ dispatched[9].name.az = 320
    /\ dispatched[9].name.el = 10

\* The view (tile, single image) whose dispatch ran last, and what was asked.
CurName == IF job = "views" THEN view.name ELSE cur.name
TrueColor == IF job = "views" THEN vmode = "rgb" ELSE mode = "rgb"
ViewEnded == calls # <<>> /\ pc \in {"tile", "view", "done"}
IsBandCall(k) ==
    calls[k].tool = "pdal" /\ calls[k].writer.dimension \in {"Red", "Green", "Blue"}
IsIntensityCall(k) ==
    calls[k].tool = "pdal" /\ calls[k].writer.dimension = "Intensity"
ComponentFailed == \E k \in 1 .. Len(calls) : IsBandCall(k) /\ exits[k] # "ok"
IntensityFailed == \E k \in 1 .. Len(calls) : IsIntensityCall(k) /\ exits[k] # "ok"
Holds(name, what) == NonEmpty(files, name) /\ ContentOf(files, name).holds = what

\* C13 as stated: when the engine fails, or yields an empty or missing file, for
\* one of the Red, Green, Blue rasterizations of a TrueColor view and does not
\* fail for Intensity, the view ends with an Intensity artifact at its output
\* path, in the single-image, tile and perspective paths.
C13_FallbackIntensity ==
    (TrueColor /\ ViewEnded /\ ComponentFailed /\ ~IntensityFailed) =>
        Holds(CurName, "Intensity")

\* The temporary files of the view: its three bands and its stacking file, in
\* the output directory (tiles, views) or in tmpdir (single image).
TempFiles ==
    IF job = "single"
    THEN BandFiles(TmpName) \cup {VrtName(TmpName)}
    ELSE BandFiles(CurName) \cup {VrtName(CurName)}

\* C14 as stated: when the dispatch of a TrueColor view has finished, on every
\* exit path, none of its red, green and blue band files and no stacking file
\* of it is left on disk.
C14_NoTempFilesLeft ==
    (TrueColor /\ ViewEnded) => \A n \in TempFiles : ~Exists(files, n)

BandExits == {exits[k] : k \in {j \in 1 .. Len(calls) : IsBandCall(j)}}
StackExits ==
    {exits[k] : k \in {j \in 1 .. Len(calls) :
                          calls[j].tool \in {"gdalbuildvrt", "gdal_translate"}}}
AllBandsOk ==
    /\ BandExits = {"ok"}
    /\ Cardinality({j \in 1 .. Len(calls) : IsBandCall(j)}) = 3

\* C15 as stated: a view requested as TrueColor has a 3-band composite as its
\* artifact only if its three component rasterizations and the stacking
\* succeeded; whenever it has an artifact otherwise, the artifact comes from an
\* Intensity rasterization, never from a single band.
C15_CompositeOrIntensity ==
    (mode = "rgb" /\ ViewEnded /\ Exists(files, CurName)) =>
        /\ ContentOf(files, CurName).holds \in {"rgb", "Intensity"}
        /\ ContentOf(files, CurName).holds = "rgb" =>
              AllBandsOk /\ "error" \notin StackExits

StackCalls(tool) == {j \in 1 .. Len(calls) : calls[j].tool = tool}
Counted == IF job = "single" THEN result = "True" ELSE created_count >= 1

\* C16 as stated: whenever the Red, Green and Blue rasterizations of a
\* TrueColor view all succeed with non-empty files and the compositing tools
\* are there, the stack-and-scale step is invoked with the bands in the order
\* Red, Green, Blue and the range 0..65535 to 0..255, and if it succeeds the
\* view ends with the composite and is counted, in all three paths.
C16_StackAndScale ==
    (TrueColor /\ ViewEnded /\ AllBandsOk /\ gdal) =>
        /\ \E j \in StackCalls("gdalbuildvrt") :
              [b \in 1 .. 3 |-> calls[j].bands[b].suffix]
                  = <<"_red", "_green", "_blue">>
        /\ "error" \notin {exits[j] : j \in StackCalls("gdalbuildvrt")} =>
              \E j \in StackCalls("gdal_translate") :
                  /\ calls[j].scale = <<0, 65535, 0, 255>>
                  /\ exits[j] = "ok" => Holds(CurName, "rgb") /\ Counted

IntensityCalls == {j \in 1 .. Len(calls) : IsIntensityCall(j)}
\* The view whose dispatch ran last was not counted as created.
LastNotCounted ==
    IF job = "single" THEN result = "False"
    ELSE created_count <= Len(dispatched) - 1

\* C17: the TrueColor fallback is a single hop: for one view at most one
\* Intensity rasterization is issued, it is the last call issued for the view,
\* and when it exits with an error the view ends failed: no file at its output
\* path and not counted as created.
C17_SingleHop ==
    (TrueColor /\ calls # <<>>) =>
        /\ Cardinality(IntensityCalls) <= 1
        /\ \A j \in IntensityCalls :
              /\ j = Len(calls)
              /\ calls[j].out = CurName
              /\ (ViewEnded /\ exits[j] = "error") =>
                    ~Exists(files, CurName) /\ LastNotCounted

\* A TrueColor view whose Green band failed and whose fallback failed too: two
\* band calls and one Intensity call were issued, and the view has no file.
C17_Witness ==
    /\ job = "views" /\ TrueColor /\ ViewEnded
    /\ Len(calls) = 3
    /\ exits = <<"ok", "error", "error">>
    /\ IsIntensityCall(3)
    /\ ~Exists(files, CurName)

\* Every cell of the grid, or every view, has been dispatched.
AllDispatched ==
    CASE job = "views" -> Len(dispatched) = count
      [] job = "tiles" ->
            (ValidOverlap /\ PositiveExtent) =>
                Len(dispatched) = plan.rows * plan.cols
      [] OTHER -> Len(dispatched) = 1

\* C18: for a request of one dimension (intensity, elevation, count) exactly
\* one rasterize call is issued per view; when it exits with an error the view
\* has no file and is not counted, no fallback is issued for it, and all the
\* later views are still dispatched.
C18_OneCallPerView ==
    (mode # "rgb" /\ job \in {"tiles", "views", "single"}) =>
        /\ Len(calls) <= 1
        /\ ViewEnded =>
              /\ calls[1].tool = "pdal"
              /\ calls[1].out = CurName
              /\ calls[1].writer.dimension \notin {"Red", "Green", "Blue"}
              /\ exits[1] = "error" =>
                    ~Exists(files, CurName) /\ LastNotCounted
        /\ (pc = "done" /\ result \in {"True", "False"}) => AllDispatched

\* Three elevation views of which the first failed: each had its one call, the
\* first has no file, the third was dispatched and has one.
C18_Witness ==
    /\ job = "views" /\ mode = "elevation" /\ pc = "done" /\ count = 3
    /\ Len(dispatched) = 3
    /\ Len(calls) = 1 /\ exits = <<"ok">>
    /\ ~Exists(files, dispatched[1].name)
    /\ NonEmpty(files, dispatched[3].name)
    /\ created_count = 2


\* C19: every artifact named in the response of a conversion job is an
\* existing file of more than zero bytes, so a zero-byte raster left in the
\* output directory is never reported, whether or not JPEG conversion was
\* requested or succeeded.
C19_ReportedNonEmpty ==
    api = "responded" => \A n \in reported : NonEmpty(files, n)

\* C20: a multiview or perspective job reports success exactly when at least
\* one artifact was collected from the output directory; a job that collected
\* fewer artifacts than were planned is a success with those artifacts, and
\* only a job that collected none fails.
C20_SuccessIffCollected ==
    (job \in {"tiles", "views"} /\ api # "script") =>
        /\ api \in {"collected", "responded"} <=> tif_files # {}
        /\ pc # "crashed" => tif_files = FirstMatch(files, Patterns)
        /\ api = "responded" => reported # {}

\* A job that planned more views or tiles than it collected, and succeeded.
C20_Witness ==
    /\ job \in {"tiles", "views"} /\ api = "responded"
    /\ Cardinality(tif_files) > 0
    /\ Cardinality(tif_files) < Len(dispatched)
    /\ Cardinality(reported) = Cardinality(tif_files)


\* C21: when the conversion of a raster to JPEG fails, the raster itself is in
\* the job's final output: for every collected .tif the response names its
\* .jpg or the .tif, also when some conversions succeed and others fail.
C21_JpgOrTif ==
    api = "responded" =>
        \A n \in tif_files :
            Exists(files, n) => n \in reported \/ JpgName(n) \in reported


\* The files one tile or view may write: its output, its three bands and the
\* stacking file.
PathsOf(name) ==
    {name, VrtName(name)} \cup {BandName(name, BandDims[b]) : b \in 1 .. 3}

\* C22: within one job the output names of the planned tiles (by row and
\* column) and of the planned views (by index) are pairwise distinct, and so
\* are their band and stacking files: no two tiles or views share any path.
C22_DistinctNames ==
    job \in {"tiles", "views"} =>
        LET names == {dispatched[k].name : k \in 1 .. Len(dispatched)}
        IN  /\ Cardinality(names) = Len(dispatched)
            /\ Cardinality(UNION {PathsOf(n) : n \in names})
                   = 5 * Len(dispatched)

\* Tiles of a grid of more than ten rows and columns have been named: a row
\* and a column of two digits, and two tiles that share the row or the column.
C22_Witness ==
    /\ job = "tiles" /\ plan.rows > 10 /\ plan.cols > 10
    /\ Len(dispatched) > plan.cols * 10 + 10


\* A perspective job asked for rgb on a cloud without Red, Green and Blue, past
\* the probe of the cloud's dimensions.
ProbedNoRgb ==
    /\ job = "views" /\ mode = "rgb" /\ ~cloud_rgb
    /\ pc \notin {"start", "probe", "returned"}

\* C23: in perspective mode with rgb requested, when the probe finds no Red,
\* Green and Blue in the cloud the mode is intensity before the first view: no
\* band is rasterized for any view, every view is one Intensity request, and
\* with nothing else failing the job succeeds with every view counted.
C23_DowngradedBeforeViews ==
    ProbedNoRgb =>
        /\ vmode = "intensity"
        /\ pc \notin {"vband", "vfallback", "vcombine", "crashed"}
        /\ Len(calls) <= 1
        /\ \A k \in 1 .. Len(calls) :
              /\ calls[k].tool = "pdal"
              /\ calls[k].writer.dimension = "Intensity"
              /\ calls[k].out = view.name
        /\ (pc = "done" /\ faults = MaxFaults) =>
              result = "True" /\ created_count = count

\* A downgraded job of several views that ended with all of them counted.
C23_Witness ==
    /\ ProbedNoRgb /\ pc = "done" /\ faults = MaxFaults
    /\ count >= 2 /\ created_count = count /\ result = "True"


\* The stacking of the view's bands failed, or its tools are not installed.
StackFailed == "error" \in StackExits \/ ~gdal

\* C24 as stated: when the stack-and-scale step fails, or the compositing
\* tools are unavailable, for a TrueColor view whose bands were rasterized, an
\* Intensity rasterization is issued for that view with the crop window and
\* the resolution its band rasterizations used.
C24_FallbackSameView ==
    (TrueColor /\ ViewEnded /\ AllBandsOk /\ StackFailed) =>
        \E j \in IntensityCalls :
            /\ calls[j].out = CurName
            /\ \A k \in 1 .. Len(calls) :
                  IsBandCall(k) => /\ calls[j].crop = calls[k].crop
                                   /\ calls[j].resolution = calls[k].resolution


\* The fixed encoding of a single-dimension request.
FixedEncoding(w) ==
    CASE w.output_type = "count" -> w.data_type = "uint32_t"
      [] w.dimension = "Z" ->
            w.output_type = "mean" /\ w.data_type = "float32" /\ ~w.predictor
      [] OTHER ->
            /\ w.dimension = "Intensity" /\ w.output_type = "mean"
            /\ w.data_type = "uint16_t"

\* C25 as stated: every single-dimension rasterization carries the encoding of
\* its mode: Intensity 16-bit unsigned with mean, Elevation 32-bit float with
\* mean and no predictor, Density 32-bit unsigned with count; also for an
\* Intensity request substituted by the TrueColor fallback, in the
\* single-image, tile and perspective paths.
C25_FixedEncoding ==
    \A k \in 1 .. Len(calls) :
        (calls[k].tool = "pdal" /\ ~IsBandCall(k)) => FixedEncoding(calls[k].writer)


\* C26 as stated: the files collected as the result of a multiview or
\* perspective job are final tile or view artifacts only; a per-band file
\* (_red.tif, _green.tif, _blue.tif) is never among them, whatever succeeded
\* or failed during the dispatch.
C26_NoBandCollected ==
    (job \in {"tiles", "views"} /\ api \in {"collected", "responded"}) =>
        \A n \in tif_files : n.suffix = ""


\* The grid cells (grid_row, grid_col) of the views dispatched so far, on a grid
\* of g by g cells.
CellsOn(g) ==
    {<<dispatched[k].index \div g, dispatched[k].index % g>> :
        k \in 1 .. Len(dispatched)}
ViewCells == CellsOn(GridSize(count))

\* C27: for a count >= 1 the sampler gives the views of distinct indices
\* distinct grid cells, with row and column below grid_size =
\* ceil(sqrt(count)); so no cell and, for an extent of positive width and
\* height, no crop window is used by two views.
C27_DistinctCells ==
    (job = "views" /\ count >= 1) =>
        \A g \in {GridSize(count)} :
            /\ Cardinality(CellsOn(g)) = Len(dispatched)
            /\ \A c \in CellsOn(g) : c[1] < g /\ c[2] < g
            /\ (WidthM(ext) > 0 /\ HeightM(ext) > 0) =>
                  Cardinality({dispatched[k].win : k \in 1 .. Len(dispatched)})
                     = Len(dispatched)

\* All the views of a count that is not a square have been planned on an
\* extent of positive area, the last of them off the first row and column.
C27_Witness ==
    /\ job = "views" /\ count = 30 /\ Len(dispatched) = count
    /\ WidthM(ext) > 0 /\ HeightM(ext) > 0
    /\ <<4, 5>> \in ViewCells


\* C28 as stated: rasterize_pointcloud returns success only if the output file
\* exists and is not empty when it returns, in every mode, rgb included (the
\* composite and the intensity fallback), also when an external tool exits 0
\* without writing a usable file.
C28_SuccessHasOutput ==
    (job = "single" /\ pc = "done" /\ result = "True") =>
        NonEmpty(files, cur.name)


\* The planning pass of a tile job has computed its grid.
TilesPlanned == job = "tiles" /\ pc \notin {"start", "plan", "returned", "crashed"}

\* C29: a tile job started through convert_las_to_images with no count given
\* reaches the planner with a count of 30: the caller's tile_size, after the
\* auto-shrink, is replaced by the size derived from 30 when the extent has a
\* positive area and the two differ by more than 1, and is the size of the
\* grid otherwise.
C29_DefaultCountSize ==
    (TilesPlanned /\ via = "convert") =>
        /\ count = DefaultCount
        /\ \A ts \in {AutoShrink(tile_size0 * Fine, ext)} :
              IF WidthM(ext) * HeightM(ext) > 0
              THEN \A calc \in {CalculatedTileSize(ext, overlap, DefaultCount)} :
                      plan.tile_size = IF Abs(calc - ts) > Fine THEN calc ELSE ts
              ELSE plan.tile_size = ts

\* A job through convert_las_to_images whose tile size was replaced by the
\* size derived from the count of 30.
C29_Witness ==
    /\ TilesPlanned /\ via = "convert"
    /\ plan.tile_size # AutoShrink(tile_size0 * Fine, ext)
    /\ plan.tile_size = CalculatedTileSize(ext, overlap, DefaultCount)
    /\ Len(dispatched) > 1


\* The file of that name in the job's jpg, tif or root folder exists.
InJobDir(fn) ==
    \E d \in {"jpg", "tif", "root"} : PathExists(<<d, fn>>)

\* C30 as stated: a download request is answered with the file of the job's
\* directory that has the requested name, never with another file, and with
\* NotFound when the directory has no file of that name.
C30_ServesRequested ==
    [][(served = NoFile /\ served' # NoFile) =>
          served' = IF InJobDir(filename') THEN filename' ELSE NotFound]_vars

=============================================================================
